---- MODULE Spec2Model ----
(***************************************************************************)
(* A model of arcadeDSL.py: the structural validator (ValidateDSLFiles),   *)
(* the parser (ParseRaw and its nested helpers), the dynamic-reference     *)
(* linker (LinkDynamicVars), the tree-to-object builder (CreateUIObjs) and *)
(* the update engine (UpdateVars).                                         *)
(*                                                                         *)
(* Texts are sequences of one-symbol strings.  Python positions are        *)
(* 0-based; a TLA+ sequence index i stands for Python position i - 1.      *)
(***************************************************************************)
EXTENDS Integers, Sequences, FiniteSets, TLC

VARIABLES
    \* ---- ValidateDSLFiles ----
    vpc,        \* "input" | "validated"
    vText,      \* TEXT handed to ValidateDSLFiles
    vDel,       \* [is |-> whether one bracket was deleted, at |-> its Python position,
                \*  ch |-> the deleted bracket, balanced |-> the text was well bracketed before]
    vOut,       \* what the last ValidateDSLFiles call reported
    \* ---- ParseRaw ----
    ppc,        \* "source" | "parsed"
    pCode,      \* CODE handed to ParseRaw
    pBlocks,    \* the top-level blocks the source was written as, in order
    pDrop,      \* [is |-> a closing bracket was struck from the source, at |-> where]
    pOut,       \* what ParseRaw returned
    \* ---- InitializeUI and the host ----
    ipc,        \* "parse" | "link" | "create" | "update" (the steps of InitializeUI
                \* for screen scr) | "host" (InitializeUI has returned)
    scr,        \* the screen InitializeUI is at
    sources,    \* the DSL text of each screen
    store,      \* the variable store, one dict for all screens
    hostStore,  \* the store as the host supplied and assigned it
    tree,       \* for each screen, the tree ParseRaw returned, as linked
    heap,       \* the objects, records and lists, and the dict OBJ_LIST defaults to
    ui,         \* for each screen, what CreateUIObjs returned
    made,       \* for each screen and node, the object and record built for it
    last,       \* the step taken last
    seen,       \* the earlier screens' results as they were before the last CreateUIObjs
    prior,      \* the targets as they were before the last UpdateVars
    writes,     \* the writes of the last UpdateVars
    steps       \* the number of host steps taken

vvars == <<vpc, vText, vDel, vOut>>

pvars == <<ppc, pCode, pBlocks, pDrop, pOut>>

ivars == <<ipc, scr, sources, store, hostStore, tree, heap, ui, made, last, seen, prior,
           writes, steps>>

vars == <<vpc, vText, vDel, vOut, ppc, pCode, pBlocks, pDrop, pOut,
          ipc, scr, sources, store, hostStore, tree, heap, ui, made, last, seen, prior,
          writes, steps>>

(***************************************************************************)
(* Generic helpers on sequences.                                           *)
(***************************************************************************)
Last(s) == s[Len(s)]

Front(s) == SubSeq(s, 1, Len(s) - 1)

RemoveAt(s, i) == SubSeq(s, 1, i - 1) \o SubSeq(s, i + 1, Len(s))

RECURSIVE SeqsUpTo(_, _)
SeqsUpTo(S, n) ==
    IF n = 0 THEN {<<>>}
    ELSE LET shorter == SeqsUpTo(S, n - 1)
         IN  shorter \cup {Append(s, c) : s \in {t \in shorter : Len(t) = n - 1}, c \in S}

(***************************************************************************)
(* ValidateDSLFiles (src/arcadeDSL.py:82-105).                             *)
(***************************************************************************)
MaxTextLen == 4

Opening == {"(", "{", "["}

Closing == {")", "}", "]"}

BracketPairs == {<<"(", ")">>, <<"{", "}">>, <<"[", "]">>}

ValidatorAlphabet == Opening \cup Closing \cup {"a"}

NoError == [ok |-> TRUE, kind |-> "none", pos |-> -1, at |-> -1]

SyntaxError(kind, pos, at) == [ok |-> FALSE, kind |-> kind, pos |-> pos, at |-> at]

\* The loop of lines 91-102.  _stack holds (ch, i) pairs; the result is the
\* SyntaxError the function raises (and prints), or NoError.  pos is the first
\* position the message names, at the position of the character that raised.
RECURSIVE ValidateLoop(_, _, _)
ValidateLoop(TEXT, i, _stack) ==
    IF i > Len(TEXT)
    THEN IF _stack # <<>>
         THEN SyntaxError("Unclosed", Last(_stack).i, Len(TEXT))
         ELSE NoError
    ELSE LET ch == TEXT[i] IN
         IF ch \in Opening
         THEN ValidateLoop(TEXT, i + 1, Append(_stack, [ch |-> ch, i |-> i - 1]))
         ELSE IF ch \in Closing
         THEN IF _stack = <<>>
              THEN SyntaxError("Unmatched", i - 1, i - 1)
              ELSE IF <<Last(_stack).ch, ch>> \notin BracketPairs
                   THEN SyntaxError("Mismatched", Last(_stack).i, i - 1)
                   ELSE ValidateLoop(TEXT, i + 1, Front(_stack))
         ELSE ValidateLoop(TEXT, i + 1, _stack)

\* ValidateDSLFiles without the final check of lines 101-102.
ValidateDSLFiles_NoUnclosedCheck(TEXT) ==
    LET r == ValidateLoop(TEXT, 1, <<>>)
    IN  IF r.kind = "Unclosed" THEN NoError ELSE r

ValidateDSLFiles(TEXT) == ValidateLoop(TEXT, 1, <<>>)

\* Well-bracketedness stated without a stack: dropping the non-bracket symbols and
\* then repeatedly cancelling an adjacent matching pair leaves nothing.
BracketsOf(t) == SelectSeq(t, LAMBDA c : c \in Opening \cup Closing)

RECURSIVE Cancels(_)
Cancels(b) ==
    IF b = <<>> THEN TRUE
    ELSE LET hits == {i \in 1..(Len(b) - 1) : <<b[i], b[i + 1]>> \in BracketPairs}
         IN  IF hits = {} THEN FALSE
             ELSE LET i == CHOOSE j \in hits : \A k \in hits : j <= k
                  IN  Cancels(SubSeq(b, 1, i - 1) \o SubSeq(b, i + 2, Len(b)))

WellBracketed(t) == Cancels(BracketsOf(t))

NoDeletion == [is |-> FALSE, at |-> -1, ch |-> "", balanced |-> FALSE]

ValidateIdle ==
    /\ vpc = "idle"
    /\ vText = <<>>
    /\ vDel = NoDeletion
    /\ vOut = NoError

ValidateInputs ==
    /\ vpc = "input"
    /\ vText \in SeqsUpTo(ValidatorAlphabet, MaxTextLen)
    /\ vDel = NoDeletion
    /\ vOut = NoError

\* The host runs the validator on the text.
Validate ==
    /\ vpc = "input"
    /\ vOut' = ValidateDSLFiles(vText)
    /\ vpc' = "validated"
    /\ UNCHANGED <<vText, vDel>>
    /\ UNCHANGED <<pvars, ivars>>

\* The host removes one bracket character of a validated text and hands the
\* result to the validator again.
DeleteBracket ==
    /\ vpc = "validated"
    /\ ~vDel.is
    /\ \E i \in 1..Len(vText) :
          /\ vText[i] \in Opening \cup Closing
          /\ vText' = RemoveAt(vText, i)
          /\ vDel' = [is |-> TRUE, at |-> i - 1, ch |-> vText[i],
                      balanced |-> WellBracketed(vText)]
    /\ vpc' = "input"
    /\ UNCHANGED vOut
    /\ UNCHANGED <<pvars, ivars>>

(***************************************************************************)
(* ParseRaw (src/arcadeDSL.py:109-366).  A source text is a sequence of    *)
(* symbols: the punctuation, quote, escape and white-space characters are  *)
(* single symbols; every other symbol is a word character (str.isalnum()   *)
(* or "_", the regex class \w), so a run of such symbols is an identifier  *)
(* exactly as a run of letters is.                                         *)
(***************************************************************************)
Space == {" ", "\n"}

Quotes == {"'", "\""}

Percent == {"%w", "%h"}

Special == {"(", ")", "{", "}", "[", "]", "=", ",", "/", "\\"}
               \cup Space \cup Quotes \cup Percent

IsWord(ch) == ch \notin Special

Digits == {"0", "1", "2"}

Min(a, b) == IF a <= b THEN a ELSE b

\* s[a:b] of Python for 1-based a and exclusive 1-based b, tolerant of b past the end.
Slice(s, a, b) == SubSeq(s, a, Min(b - 1, Len(s)))

RECURSIVE LStrip(_)
LStrip(s) == IF s # <<>> /\ s[1] \in Space THEN LStrip(Tail(s)) ELSE s

RECURSIVE RStrip(_)
RStrip(s) == IF s # <<>> /\ Last(s) \in Space THEN RStrip(Front(s)) ELSE s

Strip(s) == RStrip(LStrip(s))

\* str.lower() on the symbols that have an upper-case spelling in the model.
LowerSym(c) ==
    CASE c \in {"Style", "STYLE"} -> "style"
      [] c \in {"True", "TRUE"} -> "true"
      [] c \in {"False", "FALSE"} -> "false"
      [] c \in {"None", "NONE"} -> "none"
      [] OTHER -> c

Lower(s) == [i \in 1..Len(s) |-> LowerSym(s[i])]

\* re.sub(r"//.*", "", CODE), line 124: "." does not match the line break.
RECURSIVE StripComments(_, _, _)
StripComments(CODE, i, inComment) ==
    IF i > Len(CODE) THEN <<>>
    ELSE IF inComment
         THEN IF CODE[i] = "\n"
              THEN <<"\n">> \o StripComments(CODE, i + 1, FALSE)
              ELSE StripComments(CODE, i + 1, TRUE)
         ELSE IF CODE[i] = "/" /\ i < Len(CODE) /\ CODE[i + 1] = "/"
              THEN StripComments(CODE, i + 2, TRUE)
              ELSE <<CODE[i]>> \o StripComments(CODE, i + 1, FALSE)

RECURSIVE SkipSpace(_, _)
SkipSpace(s, i) == IF i <= Len(s) /\ s[i] \in Space THEN SkipSpace(s, i + 1) ELSE i

RECURSIVE SkipWord(_, _)
SkipWord(s, i) == IF i <= Len(s) /\ IsWord(s[i]) THEN SkipWord(s, i + 1) ELSE i

\* ---- split_top_level_commas, lines 128-156 ----
\* The three depth counters after an unquoted symbol ch.
DepthAfter(depth, ch) ==
    CASE ch = "(" -> [depth EXCEPT !.paren = @ + 1]
      [] ch = ")" -> [depth EXCEPT !.paren = @ - 1]
      [] ch = "[" -> [depth EXCEPT !.brack = @ + 1]
      [] ch = "]" -> [depth EXCEPT !.brack = @ - 1]
      [] ch = "{" -> [depth EXCEPT !.brace = @ + 1]
      [] ch = "}" -> [depth EXCEPT !.brace = @ - 1]
      [] OTHER -> depth

RECURSIVE SplitCommasLoop(_, _, _, _, _, _)
SplitCommasLoop(S, i, start, depth, quote, _out) ==
    IF i > Len(S)
    THEN LET tail == Strip(Slice(S, start, Len(S) + 1))
         IN  IF tail # <<>> THEN Append(_out, tail) ELSE _out
    ELSE LET ch == S[i]
             escaped == quote # "" /\ ch = "\\"
             split == /\ quote = "" /\ ch = ","
                      /\ depth.paren = 0 /\ depth.brack = 0 /\ depth.brace = 0
             quote2 == IF quote # "" THEN (IF ch = quote THEN "" ELSE quote)
                       ELSE IF ch \in Quotes THEN ch ELSE ""
             depth2 == IF quote # "" THEN depth ELSE DepthAfter(depth, ch)
         IN  SplitCommasLoop(S, IF escaped THEN i + 2 ELSE i + 1,
                             IF split THEN i + 1 ELSE start,
                             depth2,
                             IF escaped THEN quote ELSE quote2,
                             IF split THEN Append(_out, Strip(Slice(S, start, i))) ELSE _out)

split_top_level_commas(S) ==
    SplitCommasLoop(S, 1, 1, [paren |-> 0, brack |-> 0, brace |-> 0], "", <<>>)

\* ---- split_kv, lines 158-174: err stands for the ValueError ----
RECURSIVE SplitKvLoop(_, _, _)
SplitKvLoop(TOKEN, i, quote) ==
    IF i > Len(TOKEN) THEN [err |-> TRUE, key |-> <<>>, val |-> <<>>]
    ELSE LET ch == TOKEN[i] IN
         IF quote # ""
         THEN SplitKvLoop(TOKEN, i + 1, IF ch # "\\" /\ ch = quote THEN "" ELSE quote)
         ELSE IF ch \in Quotes THEN SplitKvLoop(TOKEN, i + 1, ch)
         ELSE IF ch = "="
              THEN LET key == Strip(Slice(TOKEN, 1, i))
                       val == Strip(Slice(TOKEN, i + 1, Len(TOKEN) + 1))
                   IN  [err |-> key = <<>>, key |-> key, val |-> val]
              ELSE SplitKvLoop(TOKEN, i + 1, quote)

split_kv(TOKEN) == SplitKvLoop(TOKEN, 1, "")

\* ---- convert_value, lines 176-195 ----
\* A converted value is [t, v]: its Python type and the symbols that spell it.
\* A percentage is kept as its numeric prefix (the pixel value is
\* SCREEN_WIDTH * prefix / 100, resp. SCREEN_HEIGHT).  ast.literal_eval is modelled
\* on integers (bare or parenthesized), quoted strings, the keywords, and flat
\* tuples and lists of
\* one-digit integers; any other spelling takes the fallback of lines 188-195.
IsDigits(s) == s # <<>> /\ \A i \in 1..Len(s) : s[i] \in Digits

IsQuoted(s) ==
    /\ Len(s) >= 2
    /\ s[1] \in Quotes /\ Last(s) = s[1]
    /\ \A i \in 2..(Len(s) - 1) : s[i] # s[1] /\ s[i] # "\\" /\ s[i] # "\n"

\* A flat composite of one-digit integers, written without white space:
\* open d , d , ... d close.
IsIntSeq(s, open, close) ==
    /\ Len(s) >= 3 /\ Len(s) % 2 = 1
    /\ s[1] = open /\ Last(s) = close
    /\ \A i \in 2..(Len(s) - 1) : IF i % 2 = 0 THEN s[i] \in Digits ELSE s[i] = ","

convert_value(VALUE) ==
    LET value == Strip(VALUE) IN
    IF value # <<>> /\ Last(value) \in Percent
    THEN LET prefix == Strip(Front(value))
         IN  [err |-> ~IsDigits(prefix),
              v |-> [t |-> IF Last(value) = "%w" THEN "pixels_w" ELSE "pixels_h", v |-> prefix]]
    ELSE IF IsDigits(value) THEN [err |-> FALSE, v |-> [t |-> "int", v |-> value]]
    ELSE IF Len(value) >= 3 /\ value[1] = "(" /\ Last(value) = ")"
            /\ IsDigits(SubSeq(value, 2, Len(value) - 1))
         THEN [err |-> FALSE, v |-> [t |-> "int", v |-> SubSeq(value, 2, Len(value) - 1)]]
    ELSE IF IsIntSeq(value, "(", ")") /\ Len(value) >= 5
         THEN [err |-> FALSE, v |-> [t |-> "tuple", v |-> value]]
    ELSE IF IsIntSeq(value, "[", "]")
         THEN [err |-> FALSE, v |-> [t |-> "list", v |-> value]]
    ELSE IF IsQuoted(value)
         THEN [err |-> FALSE, v |-> [t |-> "str", v |-> SubSeq(value, 2, Len(value) - 1)]]
    ELSE IF Lower(value) \in {<<"true">>, <<"false">>}
         THEN [err |-> FALSE, v |-> [t |-> "bool", v |-> Lower(value)]]
    ELSE IF Lower(value) = <<"none">>
         THEN [err |-> FALSE, v |-> [t |-> "none", v |-> <<>>]]
    ELSE [err |-> FALSE, v |-> [t |-> "str", v |-> value]]

\* Python truthiness of a converted value.
Truthy(val) ==
    CASE val.t = "none" -> FALSE
      [] val.t = "bool" -> val.v = <<"true">>
      [] val.t = "str" -> val.v # <<>>
      [] val.t \in {"tuple", "list"} -> Len(val.v) > 2
      [] OTHER -> \E i \in 1..Len(val.v) : val.v[i] # "0"

\* ---- ordered maps (Python dicts): sequences of [k, v] with distinct keys ----
HasKey(d, k) == \E i \in 1..Len(d) : d[i].k = k

Get(d, k) == d[CHOOSE i \in 1..Len(d) : d[i].k = k].v

Put(d, k, v) ==
    IF HasKey(d, k)
    THEN [i \in 1..Len(d) |-> IF d[i].k = k THEN [k |-> k, v |-> v] ELSE d[i]]
    ELSE Append(d, [k |-> k, v |-> v])

Pop(d, k) == SelectSeq(d, LAMBDA e : e.k # k)

SetDefault(d, k, v) == IF HasKey(d, k) THEN d ELSE Append(d, [k |-> k, v |-> v])

RECURSIVE Update(_, _)
Update(d, e) == IF e = <<>> THEN d ELSE Update(Put(d, e[1].k, e[1].v), Tail(e))

RECURSIVE SetDefaults(_, _)
SetDefaults(d, e) ==
    IF e = <<>> THEN d ELSE SetDefaults(SetDefault(d, e[1].k, e[1].v), Tail(e))

\* ---- parse_props, lines 197-207 ----
RECURSIVE ParsePropsLoop(_, _)
ParsePropsLoop(tokens, _props) ==
    IF tokens = <<>> THEN [err |-> FALSE, props |-> _props]
    ELSE IF tokens[1] = <<>> THEN ParsePropsLoop(Tail(tokens), _props)
    ELSE LET kv == split_kv(tokens[1]) IN
         IF kv.err THEN [err |-> TRUE, props |-> <<>>]
         ELSE LET cv == convert_value(kv.val) IN
              IF cv.err THEN [err |-> TRUE, props |-> <<>>]
              ELSE ParsePropsLoop(Tail(tokens), Put(_props, kv.key, cv.v))

parse_props(RAW_PROPS) ==
    IF Strip(RAW_PROPS) = <<>> THEN [err |-> FALSE, props |-> <<>>]
    ELSE ParsePropsLoop(split_top_level_commas(RAW_PROPS), <<>>)

\* ---- the balanced-span scans of parse_block, lines 258-269 and 272-283 ----
\* Returns the index the scan stops at (one past the closing symbol, or past
\* the end of s when the span never closes).
RECURSIVE ScanSpan(_, _, _, _, _, _)
ScanSpan(s, i, depth, quote, open, close) ==
    IF i > Len(s) THEN i
    ELSE LET ch == s[i] IN
         IF quote # ""
         THEN IF ch = "\\" THEN ScanSpan(s, i + 2, depth, quote, open, close)
              ELSE ScanSpan(s, i + 1, depth, IF ch = quote THEN "" ELSE quote, open, close)
         ELSE LET q == IF ch \in Quotes THEN ch ELSE ""
                  d == IF ch \in Quotes THEN depth
                       ELSE IF ch = open THEN depth + 1
                       ELSE IF ch = close THEN depth - 1
                       ELSE depth
              IN  IF d = 0 THEN i + 1 ELSE ScanSpan(s, i + 1, d, q, open, close)

\* ---- the regular expression of line 218 ----
\* ^(\w+)\s*\((.*?)\)\s*(\{(.*)\})?$ with DOTALL: the identifier is the longest
\* run of word symbols, and the lazy (.*?) ends at the first ")" after which
\* only white space, or white space and a "{ ... }" reaching the end, follows.
TailMatches(block, j) ==
    LET r == LStrip(Slice(block, j + 1, Len(block) + 1))
    IN  r = <<>> \/ (Len(r) >= 2 /\ r[1] = "{" /\ Last(r) = "}")

BlockMatch(block) ==
    LET p == SkipWord(block, 1)
        q == SkipSpace(block, p)
        ends == {j \in (q + 1)..Len(block) : block[j] = ")" /\ TailMatches(block, j)}
    IN  IF p = 1 \/ q > Len(block) \/ block[q] # "(" \/ ends = {}
        THEN [ok |-> FALSE, node_type |-> <<>>, raw_props |-> <<>>, raw_children |-> <<>>]
        ELSE LET j == CHOOSE e \in ends : \A f \in ends : e <= f
                 r == LStrip(Slice(block, j + 1, Len(block) + 1))
             IN  [ok |-> TRUE,
                  node_type |-> Slice(block, 1, p),
                  raw_props |-> Slice(block, q + 1, j),
                  raw_children |-> IF r = <<>> THEN <<>> ELSE SubSeq(r, 2, Len(r) - 1)]

\* str.splitlines() on the line break of the model.
RECURSIVE SplitLines(_, _)
SplitLines(s, cur) ==
    IF s = <<>> THEN IF cur = <<>> THEN <<>> ELSE <<cur>>
    ELSE IF s[1] = "\n" THEN <<cur>> \o SplitLines(Tail(s), <<>>)
    ELSE SplitLines(Tail(s), Append(cur, s[1]))

FirstIndex(s, c) == CHOOSE i \in 1..Len(s) : s[i] = c /\ \A j \in 1..(i - 1) : s[j] # c

\* ---- the style body, lines 229-239 ----
RECURSIVE StyleLines(_, _)
StyleLines(lines, style_props) ==
    IF lines = <<>> THEN [err |-> FALSE, props |-> style_props]
    ELSE LET line == Strip(lines[1]) IN
         IF \/ line = <<>>
            \/ (Len(line) >= 2 /\ line[1] = "/" /\ line[2] = "/")
            \/ line[1] \in {"}", "{"}
            \/ ~(\E i \in 1..Len(line) : line[i] = "=")
         THEN StyleLines(Tail(lines), style_props)
         ELSE LET e == FirstIndex(line, "=")
                  cv == convert_value(Strip(Slice(line, e + 1, Len(line) + 1)))
              IN  IF cv.err THEN [err |-> TRUE, props |-> <<>>]
                  ELSE StyleLines(Tail(lines),
                                  Put(style_props, Strip(Slice(line, 1, e)), cv.v))

\* A node is [type, props, children]; None is what parse_block returns for a
\* style block and what ParseRaw returns for a source without element blocks.
None == [type |-> <<"<None>">>, props |-> <<>>, children |-> <<>>]

\* The empty dict ParseRaw returns for the tree when an exception was caught.
EmptyDict == [type |-> <<"<{}>">>, props |-> <<>>, children |-> <<>>]

Raised(log) == [err |-> TRUE, node |-> None, styles |-> <<>>, log |-> log]

\* ---- parse_block, lines 211-295 ----
\* _styles is threaded through the recursion; log records, for each element
\* node built, the property map parse_props gave it (direct), the style table
\* at the time the style was applied (styles) and the resulting map (props).
RECURSIVE parse_block(_, _, _)
RECURSIVE ChildLoop(_, _, _, _, _)

\* Lines 285-287: the child parsed, the loop appends it and goes on.
ChildParsed(s, i4, log, _children, child) ==
    IF child.err
    THEN [err |-> TRUE, children |-> <<>>, styles |-> <<>>, log |-> log]
    ELSE ChildLoop(s, i4, child.styles, child.log,
                   IF child.node = None THEN _children
                   ELSE Append(_children, child.node))

\* Lines 284-287: child_block is the text from the name to the end of the
\* balanced spans.
ChildBlock(s, i4, _styles, log, _children, child_block) ==
    IF child_block = <<>> THEN ChildLoop(s, i4, _styles, log, _children)
    ELSE ChildParsed(s, i4, log, _children, parse_block(child_block, _styles, log))

\* Lines 268-283: the optional "{...}" span after the "(...)" span ending
\* before i3.
ChildBraces(s, start, i3, _styles, log, _children) ==
    LET i4 == IF i3 <= Len(s) /\ s[i3] = "{"
              THEN ScanSpan(s, i3, 0, "", "{", "}")
              ELSE i3
    IN  ChildBlock(s, i4, _styles, log, _children, Strip(Slice(s, start, i4)))

\* Lines 252-266: the name was read up to i2, where "(" must follow.
ChildParens(s, start, i2, _styles, log, _children) ==
    IF i2 > Len(s) \/ s[i2] # "("
    THEN [err |-> TRUE, children |-> <<>>, styles |-> <<>>, log |-> log]
    ELSE ChildBraces(s, start, SkipSpace(s, ScanSpan(s, i2, 0, "", "(", ")")),
                     _styles, log, _children)

\* Lines 246-251: one round of the loop over raw_children, from i.
ChildName(s, i, i1, _styles, log, _children) ==
    IF i > Len(s) \/ i1 > Len(s)
    THEN [err |-> FALSE, children |-> _children, styles |-> _styles, log |-> log]
    ELSE ChildParens(s, i1, SkipSpace(s, SkipWord(s, i1)), _styles, log, _children)

ChildLoop(s, i, _styles, log, _children) ==
    ChildName(s, i, SkipSpace(s, i), _styles, log, _children)

\* Lines 290-293: the style named by style_name fills in what direct lacks.
ApplyStyle(direct, _styles) ==
    IF /\ HasKey(direct, <<"style_name">>)
       /\ Truthy(Get(direct, <<"style_name">>))
       /\ HasKey(_styles, Get(direct, <<"style_name">>))
    THEN SetDefaults(Pop(direct, <<"style_name">>),
                     Get(_styles, Get(direct, <<"style_name">>)))
    ELSE Pop(direct, <<"style_name">>)

\* Lines 290-295: the element node, once its children (kids) are parsed.
ElementNode(node_type, direct, _props, kids, log) ==
    IF kids.err THEN Raised(log)
    ELSE [err |-> FALSE,
          node |-> [type |-> node_type, props |-> _props, children |-> kids.children],
          styles |-> kids.styles,
          log |-> Append(kids.log, [direct |-> direct, styles |-> kids.styles,
                                    props |-> _props])]

\* Lines 244-295: an element block.
ElementBlock(node_type, direct, kids, log) ==
    ElementNode(node_type, direct, ApplyStyle(direct, kids.styles), kids, log)

\* Lines 223-242: a style block; body is what its lines define.
StyleBlock(direct, body, _styles, log) ==
    IF ~HasKey(direct, <<"name">>) \/ body.err THEN Raised(log)
    ELSE [err |-> FALSE, node |-> None,
          styles |-> Put(_styles, Get(direct, <<"name">>),
                         Update(body.props, Pop(direct, <<"name">>))),
          log |-> log]

\* Lines 220-295: the block matched as m, its properties parsed as pp.
MatchedBlock(m, pp, raw_children, _styles, log) ==
    IF ~m.ok \/ pp.err THEN Raised(log)
    ELSE IF Lower(m.node_type) = <<"style">>
    THEN StyleBlock(pp.props,
                    IF raw_children # <<>>
                    THEN StyleLines(SplitLines(raw_children, <<>>), <<>>)
                    ELSE [err |-> FALSE, props |-> <<>>],
                    _styles, log)
    ELSE ElementBlock(m.node_type, pp.props,
                      IF raw_children # <<>>
                      THEN ChildLoop(raw_children, 1, _styles, log, <<>>)
                      ELSE [err |-> FALSE, children |-> <<>>, styles |-> _styles,
                            log |-> log],
                      log)

\* Lines 218-221: the block pattern, then parse_props on its first group.
BlockProps(m, _styles, log) ==
    MatchedBlock(m, parse_props(m.raw_props), Strip(m.raw_children), _styles, log)

parse_block(BLOCK, _styles, log) == BlockProps(BlockMatch(Strip(BLOCK)), _styles, log)

\* ---- the top-level block scan, lines 313-338 ----
RECURSIVE TopScan(_, _, _, _, _)
TopScan(code, i, depth, quote, paren_depth) ==
    IF i > Len(code) THEN i
    ELSE LET ch == code[i]
             escaped == quote # "" /\ ch = "\\" /\ i + 1 <= Len(code)
             quote2 == IF quote # "" THEN (IF ch = quote THEN "" ELSE quote)
                       ELSE IF ch \in Quotes THEN ch ELSE ""
             paren2 == IF quote # "" THEN paren_depth
                       ELSE IF ch = "(" THEN paren_depth + 1
                       ELSE IF ch = ")" THEN paren_depth - 1
                       ELSE paren_depth
             depth2 == IF quote # "" \/ paren_depth # 0 THEN depth
                       ELSE IF ch = "{" THEN depth + 1
                       ELSE IF ch = "}" THEN depth - 1
                       ELSE depth
         IN  IF quote = "" /\ ch = "}" /\ paren_depth = 0 /\ depth2 = 0 THEN i + 1
             ELSE TopScan(code, IF escaped THEN i + 2 ELSE i + 1, depth2,
                          IF escaped THEN quote ELSE quote2, paren2)

\* ---- the top-level loop, lines 299-342 ----
RECURSIVE TopLoop(_, _, _)

\* Lines 313-342: the block from start, whose "(" is at i2, ends before i3.
TopBlock(code, i3, _blocks, block_text) ==
    TopLoop(code, i3, IF block_text # <<>> THEN Append(_blocks, block_text) ELSE _blocks)

TopSpan(code, start, i3, _blocks) ==
    TopBlock(code, i3, _blocks, Strip(Slice(code, start, i3)))

TopParens(code, start, i2, _blocks) ==
    IF i2 > Len(code) \/ code[i2] # "(" THEN _blocks
    ELSE TopSpan(code, start, TopScan(code, i2, 0, "", 0), _blocks)

TopName(code, i, i1, _blocks) ==
    IF i > Len(code) \/ i1 > Len(code) THEN _blocks
    ELSE TopParens(code, i1, SkipSpace(code, SkipWord(code, i1)), _blocks)

TopLoop(code, i, _blocks) == TopName(code, i, SkipSpace(code, i), _blocks)

\* ---- building the main tree, lines 345-360 ----
RECURSIVE BuildMainTree(_, _, _, _)

\* Lines 351-360: the first element becomes the tree, a second one wraps both
\* in a container unless the tree's type is already "container".
AddToMainTree(_main_tree, node) ==
    IF node = None THEN _main_tree
    ELSE IF _main_tree = None THEN node
    ELSE IF _main_tree.type # <<"container">>
         THEN [type |-> <<"container">>, props |-> <<>>,
               children |-> <<_main_tree, node>>]
         ELSE [_main_tree EXCEPT !.children = Append(@, node)]

BuildNext(rest, _main_tree, _parsed) ==
    IF _parsed.err
    THEN [err |-> TRUE, tree |-> EmptyDict, styles |-> <<>>, log |-> _parsed.log]
    ELSE BuildMainTree(rest, AddToMainTree(_main_tree, _parsed.node),
                       _parsed.styles, _parsed.log)

BuildMainTree(_blocks, _main_tree, _styles, log) ==
    IF _blocks = <<>>
    THEN [err |-> FALSE, tree |-> _main_tree, styles |-> _styles, log |-> log]
    ELSE BuildNext(Tail(_blocks), _main_tree, parse_block(_blocks[1], _styles, log))

\* ParseRaw: err is the caught exception, for which the function returns ({}, {}).
ParseRaw(CODE) ==
    BuildMainTree(TopLoop(Strip(StripComments(CODE, 1, FALSE)), 1, <<>>), None, <<>>, <<>>)

(***************************************************************************)
(* ParseRaw as a step of the host: sources are written as one to MaxBlocks *)
(* top-level blocks, separated by a blank or a line break.                 *)
(***************************************************************************)
MaxBlocks == 3

ElementBlocks ==
    { <<"label", "(", ")">>,
      <<"label", "(", "x", "=", "1", ")", "{", "}">>,
      <<"button", "(", "x", "=", "1", ")", "{", "label", "(", ")", "}">>,
      <<"container", "(", ")", "{", "}">>,
      <<"button", "(", "style_name", "=", "s", ",", "c", "=", "2", ")", "{", "}">>,
      <<"button", "(", "style_name", "=", "s", ")", "{", "}">>,
      <<"button", "(", "style_name", "=", "0", ")", "{", "}">> }

StyleBlocks ==
    { <<"style", "(", "name", "=", "s", ")", "{", "c", "=", "1", "}">>,
      <<"style", "(", "name", "=", "0", ")", "{", "c", "=", "1", "}">>,
      <<"style", "(", "name", "=", "s", ",", "c", "=", "0", ")", "{", "x", "=", "2", "}">> }

IsStyleBlock(b) == LowerSym(b[1]) = "style"

RECURSIVE Join(_, _)
Join(blocks, sep) ==
    IF blocks = <<>> THEN <<>>
    ELSE IF Len(blocks) = 1 THEN blocks[1]
    ELSE blocks[1] \o <<sep>> \o Join(Tail(blocks), sep)

NoDrop == [is |-> FALSE, at |-> -1]

NotParsed == [err |-> FALSE, tree |-> None, styles |-> <<>>, log |-> <<>>]

ParseIdle ==
    /\ ppc = "idle"
    /\ pCode = <<>>
    /\ pBlocks = <<>>
    /\ pDrop = NoDrop
    /\ pOut = NotParsed

ParseInputs ==
    /\ ppc = "source"
    /\ pBlocks \in SeqsUpTo(ElementBlocks \cup StyleBlocks, MaxBlocks) \ {<<>>}
    /\ \E sep \in Space : pCode = Join(pBlocks, sep)
    /\ pDrop = NoDrop
    /\ pOut = NotParsed

\* The host parses the source (InitializeUI, line 730).
Parse ==
    /\ ppc = "source"
    /\ pOut' = ParseRaw(pCode)
    /\ ppc' = "parsed"
    /\ UNCHANGED <<pCode, pBlocks, pDrop>>
    /\ UNCHANGED <<vvars, ivars>>

\* The source reaches the parser with one closing ")" or "}" missing.
DropCloser ==
    /\ ppc = "source"
    /\ ~pDrop.is
    /\ \E i \in 1..Len(pCode) :
          /\ pCode[i] \in {")", "}"}
          /\ pCode' = RemoveAt(pCode, i)
          /\ pDrop' = [is |-> TRUE, at |-> i - 1]
    /\ UNCHANGED <<ppc, pBlocks, pOut>>
    /\ UNCHANGED <<vvars, ivars>>

(***************************************************************************)
(* Values, the variable store and the parsed tree as the linker, the       *)
(* builder and the update engine see them.                                 *)
(***************************************************************************)
PyInt(d) == [t |-> "int", v |-> <<d>>]

PyStr(s) == [t |-> "str", v |-> s]

PyNone == [t |-> "none", v |-> <<>>]

PyEmptyList == [t |-> "list", v |-> <<"[", "]">>]

\* dict.get(k, default)
GetOr(d, k, default) == IF HasKey(d, k) THEN Get(d, k) ELSE default

\* d == e on dicts: the same keys with the same values, in any order.
DictEq(d, e) == {d[i] : i \in 1..Len(d)} = {e[i] : i \in 1..Len(e)}

\* The symbols that contain "<<" and ">>", and what is left of a symbol when
\* both markers are removed (line 394).
Markers == {"<<a>>", "<<b>>"}

Unmarked(sym) ==
    CASE sym = "<<a>>" -> "a"
      [] sym = "<<b>>" -> "b"
      [] OTHER -> sym

\* An integer key (lines 663: 1 for name, 2 for tags); property and attribute
\* keys are strings, spelled as symbol sequences.
IntKey(n) == IF n = 1 THEN <<"[1]">> ELSE <<"[2]">>

IsIntKey(key) == key \in {<<"[1]">>, <<"[2]">>}

\* What a reference's target_dict can be: a node's props dict (of node i of
\* screen s), the store, a created object, a metadata record, a reference
\* list, or None.
PropsTarget(s, i) == [kind |-> "props", at |-> <<s, i>>]

StoreTarget == [kind |-> "store", at |-> <<>>]

ObjTarget(id) == [kind |-> "obj", at |-> <<id>>]

RecTarget(id) == [kind |-> "rec", at |-> <<id>>]

ListTarget(id) == [kind |-> "list", at |-> <<id>>]

NoTarget == [kind |-> "none", at |-> <<>>]

\* The dict of lines 399-403, 645-649, 661-665, 668-672.
Ref(target, key, var) == [kind |-> "ref", target |-> target, key |-> key, var |-> var]

\* A list element that is no reference any more: a value UpdateVars wrote
\* into the list.
Written(value) == [kind |-> "value", value |-> value]

\* The tree ParseRaw returned, its nodes in the order a depth-first walk meets
\* them; parent is the index of a node's parent, 0 for the root.  kind is "tree"
\* for a node, "empty" for the {} of a caught exception, "none" for None;
\* dynamic_refs is the list LinkDynamicVars stored under that key (0: none).
RECURSIVE Flatten(_, _, _)
RECURSIVE FlattenChildren(_, _, _, _)

FlattenChildren(children, j, parent, acc) ==
    IF j > Len(children) THEN acc
    ELSE FlattenChildren(children, j + 1, parent, Flatten(children[j], parent, acc))

Flatten(node, parent, acc) ==
    FlattenChildren(node.children, 1, Len(acc) + 1,
                    Append(acc, [type |-> node.type, props |-> node.props,
                                 parent |-> parent]))

NoTree == [kind |-> "none", nodes |-> <<>>, dynamic_refs |-> 0]

ParsedTree(out) ==
    IF out.err THEN [NoTree EXCEPT !.kind = "empty"]
    ELSE IF out.tree = None THEN NoTree
    ELSE [NoTree EXCEPT !.kind = "tree", !.nodes = Flatten(out.tree, 0, <<>>)]

(***************************************************************************)
(* LinkDynamicVars (src/arcadeDSL.py:370-410).                             *)
(***************************************************************************)
\* Lines 392-395: value is a string with both markers that names V_KEY.
IsPlaceholderOf(value, V_KEY) ==
    /\ value.t = "str"
    /\ \E i \in 1..Len(value.v) : value.v[i] \in Markers
    /\ [i \in 1..Len(value.v) |-> Unmarked(value.v[i])] = V_KEY

\* iterate_dict on one dict D of scalar values (a node's props, the store),
\* from its j-th item: a matching value becomes None and a reference to
\* (D, key) is appended.
RECURSIVE iterate_dict(_, _, _, _, _)
iterate_dict(D, j, target, V_KEY, refs) ==
    IF j > Len(D) THEN [d |-> D, refs |-> refs]
    ELSE IF IsPlaceholderOf(D[j].v, V_KEY)
    THEN iterate_dict([D EXCEPT ![j].v = PyNone], j + 1, target, V_KEY,
                      Append(refs, Ref(target, D[j].k, V_KEY)))
    ELSE iterate_dict(D, j + 1, target, V_KEY, refs)

\* iterate_dict over the tree: each node's props, then its children (lines
\* 386-391), that is the nodes in depth-first order.
RECURSIVE LinkNodes(_, _, _, _, _)

LinkedNode(s, nodes, i, V_KEY, r) ==
    LinkNodes(s, [nodes EXCEPT ![i].props = r.d], i + 1, V_KEY, r.refs)

LinkNodes(s, nodes, i, V_KEY, refs) ==
    IF i > Len(nodes) THEN [nodes |-> nodes, refs |-> refs]
    ELSE LinkedNode(s, nodes, i, V_KEY,
                    iterate_dict(nodes[i].props, 1, PropsTarget(s, i), V_KEY, refs))

\* Lines 406-407: for each store key in turn, iterate_dict walks PARSED_CODE:
\* the tree, then the dict under "dynamic_vars", which is the store itself,
\* then the list under "dynamic_refs", whose reference dicts hold nothing left
\* to match.
RECURSIVE LinkVars(_, _, _, _, _)

LinkedStore(s, nodes, vi, r) == LinkVars(s, nodes, r.d, vi + 1, r.refs)

LinkedTree(s, _VARIABLES, vi, r) ==
    LinkedStore(s, r.nodes, vi,
                iterate_dict(_VARIABLES, 1, StoreTarget, _VARIABLES[vi].k, r.refs))

LinkVars(s, nodes, _VARIABLES, vi, refs) ==
    IF vi > Len(_VARIABLES) THEN [nodes |-> nodes, store |-> _VARIABLES, refs |-> refs]
    ELSE LinkedTree(s, _VARIABLES, vi, LinkNodes(s, nodes, 1, _VARIABLES[vi].k, refs))

\* The heap: objs are the created objects (each a dict of attributes), recs
\* the metadata records [object, name, tags], lists the reference lists, and
\* OBJ_LIST the dict that is the default value of CreateUIObjs' parameter
\* (line 414): set says that keys -1 and -2 are present, refs is the list under
\* -1, recs the records under keys 0, 1, ...; key -2 holds the store.
EmptyHeap ==
    [objs |-> <<>>, recs |-> <<>>, lists |-> <<>>,
     OBJ_LIST |-> [set |-> FALSE, refs |-> 0, recs |-> <<>>]]

\* PARSED_CODE = None raises at line 380 and nothing is linked.
LinkResult(PARSED_CODE, h, r) ==
    [tree |-> [PARSED_CODE EXCEPT !.nodes = r.nodes, !.dynamic_refs = Len(h.lists) + 1],
     store |-> r.store,
     heap |-> [h EXCEPT !.lists = Append(@, r.refs)]]

LinkDynamicVars(s, PARSED_CODE, _VARIABLES, h) ==
    IF PARSED_CODE.kind = "none"
    THEN [tree |-> PARSED_CODE, store |-> _VARIABLES, heap |-> h]
    ELSE LinkResult(PARSED_CODE, h, LinkVars(s, PARSED_CODE.nodes, _VARIABLES, 1, <<>>))

(***************************************************************************)
(* CreateUIObjs (src/arcadeDSL.py:414-689).                                *)
(***************************************************************************)
ElementKinds ==
    {<<"label">>, <<"button">>, <<"input_text">>, <<"text_area">>, <<"space">>,
     <<"dummy">>, <<"sprite_widget">>}

TextKinds == {<<"label">>, <<"button">>, <<"input_text">>, <<"text_area">>}

TransparentKinds == {<<"group">>, <<"box_layout">>, <<"anchor_layout">>, <<"container">>}

\* _props.get(k, default) or fallback
GetOrElse(_props, k, fallback) ==
    IF Truthy(GetOr(_props, k, PyNone)) THEN Get(_props, k) ELSE fallback

\* The object the widget factory builds from the keyword arguments of lines
\* 444-616, as the attributes it holds; of these text and x are kept.
Widget(node_type, _props) ==
    (IF node_type \in TextKinds
     THEN <<[k |-> <<"text">>, v |-> GetOrElse(_props, <<"text">>, PyStr(<<"Empty">>))]>>
     ELSE <<>>)
    \o <<[k |-> <<"x">>, v |-> GetOrElse(_props, <<"x">>, PyInt("0"))]>>

\* Lines 428-429 down the recursion of line 683: a node's _props are its
\* parent's _props updated with its own props.
RECURSIVE PropsOf(_, _)
PropsOf(nodes, i) ==
    IF i = 0 THEN <<>> ELSE Update(PropsOf(nodes, nodes[i].parent), nodes[i].props)

\* c is the state a call works on: the heap h, GROUP_DYNAMIC_REFS as G, for
\* each node the object and record made for it (0: none), and the nodes whose
\* call raised.
\* Lines 626-627: the record goes under key len(OBJ_LIST) - 2, which is the
\* next key from 0 up, or -2 in a dict that is still empty, where line 633
\* then replaces it.
StoreObject(node_type, _props, i, c) ==
    IF node_type \notin ElementKinds THEN c
    ELSE [c EXCEPT
            !.h.objs = Append(@, Widget(node_type, _props)),
            !.h.recs = Append(@, [obj |-> Len(c.h.objs) + 1,
                                  name |-> GetOr(_props, <<"name">>, PyStr(<<>>)),
                                  tags |-> GetOr(_props, <<"tags">>, PyEmptyList)]),
            !.h.OBJ_LIST.recs = IF c.h.OBJ_LIST.set THEN Append(@, Len(c.h.recs) + 1) ELSE @,
            !.made[i] = [obj |-> Len(c.h.objs) + 1, rec |-> Len(c.h.recs) + 1]]

\* Lines 631-633, at the root of the tree.
RootStep(i, dynamic_refs, c) ==
    IF i # 1 THEN c
    ELSE [c EXCEPT !.h.OBJ_LIST.set = TRUE, !.h.OBJ_LIST.refs = dynamic_refs]

\* OBJ_LIST[len(OBJ_LIST) - 3] (lines 652, 662): the record under the highest
\* key, or the list under -1 when the dict holds no record.
LastSlot(c) ==
    IF c.h.OBJ_LIST.recs = <<>> THEN ListTarget(c.h.OBJ_LIST.refs)
    ELSE RecTarget(Last(c.h.OBJ_LIST.recs))

\* _created_obj
CreatedObj(i, c) == IF c.made[i].obj = 0 THEN NoTarget ELSE ObjTarget(c.made[i].obj)

\* _ref["target_dict"] == TREE["props"] (lines 637, 678): Python compares
\* dicts by their items; an object, a list or None equals no dict.
TargetEquals(target, props, e) ==
    CASE target.kind = "props" ->
             DictEq(e.trees[target.at[1]].nodes[target.at[2]].props, props)
      [] target.kind = "store" -> DictEq(e.store, props)
      [] OTHER -> FALSE

\* Lines 639-649.
AddGroupRef(G, _ref) ==
    IF \E g \in 1..Len(G) : G[g].key = _ref.key
    THEN [g \in 1..Len(G) |->
             IF G[g].key = _ref.key THEN [G[g] EXCEPT !.var = _ref.var] ELSE G[g]]
    ELSE Append(G, Ref(_ref.target, _ref.key, _ref.var))

\* Lines 637-654 for the j-th reference of OBJ_LIST[-1].
Retargeted(e, node, i, j, _ref, c) ==
    IF ~TargetEquals(_ref.target, node.props, e) THEN c
    ELSE IF node.type = <<"group">> THEN [c EXCEPT !.G = AddGroupRef(@, _ref)]
    ELSE [c EXCEPT !.h.lists[c.h.OBJ_LIST.refs][j].target =
                      IF _ref.key \in {<<"name">>, <<"tags">>} THEN LastSlot(c)
                      ELSE CreatedObj(i, c)]

RECURSIVE RetargetLoop(_, _, _, _, _)
RetargetLoop(e, node, i, j, c) ==
    IF j > Len(c.h.lists[c.h.OBJ_LIST.refs]) THEN c
    ELSE RetargetLoop(e, node, i, j + 1,
                      Retargeted(e, node, i, j, c.h.lists[c.h.OBJ_LIST.refs][j], c))

\* Lines 660-673.
ChildRef(_ref, i, c) ==
    IF _ref.key \in {<<"name">>, <<"tags">>}
    THEN Ref(LastSlot(c), IntKey(IF _ref.key = <<"name">> THEN 1 ELSE 2), _ref.var)
    ELSE Ref(CreatedObj(i, c), _ref.key, _ref.var)

\* Lines 657-673.
RECURSIVE CarryLoop(_, _, _, _)
CarryLoop(_props, i, g, c) ==
    IF g > Len(c.G) THEN c
    ELSE CarryLoop(_props, i, g + 1,
                   IF Truthy(GetOr(_props, c.G[g].key, PyNone)) THEN c
                   ELSE [c EXCEPT !.h.lists[c.h.OBJ_LIST.refs] =
                                     Append(@, ChildRef(c.G[g], i, c))])

Carry(node, _props, i, c) ==
    IF node.type = <<"group">> THEN c ELSE CarryLoop(_props, i, 1, c)

\* Lines 676-678: OBJ_LIST[-1] becomes a new list.
Cleanup(e, node, c) ==
    IF node.type # <<"group">> THEN c
    ELSE [c EXCEPT
            !.h.lists = Append(@, SelectSeq(c.h.lists[c.h.OBJ_LIST.refs],
                                  LAMBDA r : ~TargetEquals(r.target, node.props, e))),
            !.h.OBJ_LIST.refs = Len(c.h.lists) + 1]

\* Lines 428-678 for node i, whose type is known.
NodeBody(e, TREE, i, _props, c) ==
    Cleanup(e, TREE.nodes[i],
        Carry(TREE.nodes[i], _props, i,
            RetargetLoop(e, TREE.nodes[i], i, 1,
                RootStep(i, TREE.dynamic_refs,
                    StoreObject(TREE.nodes[i].type, _props, i, c)))))

\* Lines 682-683: the children, each in its own call.  A call on a node of
\* unknown type raises at line 622 and returns {} at line 689, which line 683
\* drops; the children of that node are never visited.
RECURSIVE CreateLoop(_, _, _, _)
CreateLoop(e, TREE, i, c) ==
    IF i > Len(TREE.nodes) THEN c
    ELSE IF \/ TREE.nodes[i].parent \in c.failed
            \/ TREE.nodes[i].type \notin ElementKinds \cup TransparentKinds
    THEN CreateLoop(e, TREE, i + 1, [c EXCEPT !.failed = @ \cup {i}])
    ELSE CreateLoop(e, TREE, i + 1, NodeBody(e, TREE, i, PropsOf(TREE.nodes, i), c))

NoneMade(TREE) == [i \in 1..Len(TREE.nodes) |-> [obj |-> 0, rec |-> 0]]

\* ok: the call returned OBJ_LIST (line 685), not the {} of line 689.
Built(c) == [ok |-> TRUE, h |-> c.h, made |-> c.made]

\* The call of line 736, with OBJ_LIST and GROUP_DYNAMIC_REFS left to their
\* defaults.  TREE = None and TREE = {} raise at lines 429 and 622.
CreateUIObjs(e, TREE, h) ==
    IF \/ TREE.kind # "tree"
       \/ TREE.nodes[1].type \notin ElementKinds \cup TransparentKinds
    THEN [ok |-> FALSE, h |-> h, made |-> NoneMade(TREE)]
    ELSE Built(CreateLoop(e, TREE, 1,
                  [h |-> h, G |-> <<>>, made |-> NoneMade(TREE), failed |-> {}]))

(***************************************************************************)
(* UpdateVars (src/arcadeDSL.py:693-708).                                  *)
(***************************************************************************)
\* u is what a call works on: the heap, the store, the trees, and the writes
\* it has made.  ok is FALSE when the write raised.
Wrote(_ref, u) ==
    [ok |-> TRUE,
     u |-> [u EXCEPT !.writes = @ \cup {[target |-> _ref.target, key |-> _ref.key,
                                        var |-> _ref.var]}]]

Raises(u) == [ok |-> FALSE, u |-> u]

\* Lines 702-705 for one reference: item assignment on a dict or a list,
\* setattr on anything else.
Write(_ref, value, u) ==
    LET t == _ref.target
        id == IF t.at = <<>> THEN 0 ELSE t.at[1]
    IN  CASE t.kind = "props" ->
                 Wrote(_ref, [u EXCEPT !.trees[id].nodes[t.at[2]].props =
                                          Put(@, _ref.key, value)])
          [] t.kind = "store" ->
                 Wrote(_ref, [u EXCEPT !.store = Put(@, _ref.key, value)])
          [] t.kind = "rec" ->
                 IF _ref.key = IntKey(1)
                 THEN Wrote(_ref, [u EXCEPT !.h.recs[id].name = value])
                 ELSE IF _ref.key = IntKey(2)
                 THEN Wrote(_ref, [u EXCEPT !.h.recs[id].tags = value])
                 ELSE Raises(u)
          [] t.kind = "list" ->
                 IF _ref.key = IntKey(1) /\ Len(u.h.lists[id]) >= 2
                 THEN Wrote(_ref, [u EXCEPT !.h.lists[id][2] = Written(value)])
                 ELSE IF _ref.key = IntKey(2) /\ Len(u.h.lists[id]) >= 3
                 THEN Wrote(_ref, [u EXCEPT !.h.lists[id][3] = Written(value)])
                 ELSE Raises(u)
          [] t.kind = "obj" ->
                 IF IsIntKey(_ref.key) THEN Raises(u)
                 ELSE Wrote(_ref, [u EXCEPT !.h.objs[id] = Put(@, _ref.key, value)])
          [] OTHER -> Raises(u)

RECURSIVE UpdateLoop(_, _, _)

\* Line 707: an exception ends the loop.
Continue(L, j, w) == IF w.ok THEN UpdateLoop(L, j + 1, w.u) ELSE w.u

\* An element that is no reference dict, or a variable the store lacks, raises.
ApplyRef(L, j, _ref, u) ==
    IF _ref.kind # "ref" THEN u
    ELSE IF ~HasKey(u.store, _ref.var) THEN u
    ELSE Continue(L, j, Write(_ref, Get(u.store, _ref.var), u))

UpdateLoop(L, j, u) ==
    IF j > Len(u.h.lists[L]) THEN u
    ELSE ApplyRef(L, j, u.h.lists[L][j], u)

\* DATA is what CreateUIObjs returned: OBJ_LIST ("shared"), or {} ("empty"),
\* where DATA[-1] raises.
UpdateVars(DATA, u) ==
    IF DATA # "shared" \/ ~u.h.OBJ_LIST.set THEN u
    ELSE UpdateLoop(u.h.OBJ_LIST.refs, 1, u)

(***************************************************************************)
(* InitializeUI (src/arcadeDSL.py:712-744) and the host after it: one      *)
(* store for all screens; each screen is parsed, linked, built and updated *)
(* in turn; then the host changes store values and calls UpdateVars on the *)
(* results InitializeUI returned.                                          *)
(***************************************************************************)
MaxScreens == 2

MaxHostSteps == 2

Sources ==
    { <<"label", "(", "text", "=", "<<a>>", ")">>,
      <<"label", "(", "text", "=", "<<a>>", ")", "{", "}", " ",
        "label", "(", "text", "=", "<<b>>", ")", "{", "}">>,
      <<"group", "(", "name", "=", "\"", "<<a>>", "\"", ")", "{",
        "label", "(", "text", "=", "s", ")", " ",
        "label", "(", "text", "=", "<<b>>", ")", "}">>,
      <<"group", "(", "name", "=", "<<a>>", ")", "{",
        "label", "(", "text", "=", "<<a>>", ")", " ",
        "label", "(", "text", "=", "<<b>>", ")", "}">>,
      <<"container", "(", ")", "{", "bogus", "(", ")", " ",
        "label", "(", "text", "=", "<<a>>", ")", "}">>,
      <<"bogus", "(", "x", "=", "<<a>>", ")">>,
      <<"label", "(", "name", "=", "<<a>>", ",", "text", "=", "<<b>>", ")">>,
      <<"group", "(", "x", "=", "<<a>>", ")", "{",
        "container", "(", ")", "{", "label", "(", ")", "}", "}">>,
      <<"container", "(", ")", "{", "group", "(", "x", "=", "<<a>>", ")", "{", "}", " ",
        "label", "(", "x", "=", "<<b>>", ")", "}">>,
      <<"container", "(", ")", "{", "group", "(", "x", "=", "<<a>>", ")", "{", "}", " ",
        "label", "(", ")", "}">>,
      <<"group", "(", "x", "=", "<<a>>", ")", "{",
        "group", "(", "x", "=", "<<b>>", ",", "text", "=", "s", ")", "{", "}", " ",
        "label", "(", ")", "}">>,
      <<"group", "(", "x", "=", "<<a>>", ")", "{", "label", "(", "x", "=", "0", ")", "}">>,
      <<"group", "(", "x", "=", "<<a>>", ")", "{",
        "container", "(", "x", "=", "1", ")", "{", "label", "(", ")", "}", "}">> }

Stores ==
    { <<[k |-> <<"a">>, v |-> PyInt("1")], [k |-> <<"b">>, v |-> PyInt("2")]>>,
      <<[k |-> <<"a">>, v |-> PyStr(<<"<<b>>">>)], [k |-> <<"b">>, v |-> PyInt("1")]>>,
      <<[k |-> <<"a">>, v |-> PyInt("1")]>> }

HostValues == {PyInt("1"), PyInt("2")}

NoOp == [op |-> "none", s |-> 0, again |-> FALSE]

\* What the host holds of a result: the records under the keys from 0 up, the
\* list under -1, and whether -2 holds the store.
View(DATA, h) ==
    IF DATA = "shared"
    THEN [recs |-> [j \in 1..Len(h.OBJ_LIST.recs) |->
                       [id |-> h.OBJ_LIST.recs[j], rec |-> h.recs[h.OBJ_LIST.recs[j]]]],
          refs |-> h.lists[h.OBJ_LIST.refs],
          vars |-> TRUE]
    ELSE [recs |-> <<>>, refs |-> <<>>, vars |-> FALSE]

\* The targets UpdateVars can write to, apart from the trees and the lists.
Targets(h, st) == [objs |-> h.objs, recs |-> h.recs, store |-> st]

PipelineIdle ==
    /\ ipc = "idle" /\ scr = 0 /\ sources = <<>>
    /\ store = <<>> /\ hostStore = <<>>
    /\ tree = <<>> /\ heap = EmptyHeap /\ ui = <<>> /\ made = <<>>
    /\ last = NoOp /\ seen = <<>> /\ prior = Targets(EmptyHeap, <<>>)
    /\ writes = {} /\ steps = 0

PipelineInputs ==
    /\ ipc = "parse" /\ scr = 1
    /\ sources \in SeqsUpTo(Sources, MaxScreens) \ {<<>>}
    /\ store \in Stores /\ hostStore = store
    /\ tree = [s \in 1..Len(sources) |-> NoTree]
    /\ heap = EmptyHeap
    /\ ui = [s \in 1..Len(sources) |-> "none"]
    /\ made = [s \in 1..Len(sources) |-> <<>>]
    /\ last = NoOp /\ seen = <<>> /\ prior = Targets(EmptyHeap, <<>>)
    /\ writes = {} /\ steps = 0

\* Lines 729-730.  ValidateDSLFiles is called first; it returns nothing and
\* InitializeUI goes on whatever it reported.
ParseStep ==
    /\ ipc = "parse"
    /\ tree' = [tree EXCEPT ![scr] = ParsedTree(ParseRaw(sources[scr]))]
    /\ ipc' = "link"
    /\ last' = [op |-> "parse", s |-> scr, again |-> FALSE]
    /\ UNCHANGED <<scr, sources, store, hostStore, heap, ui, made, seen, prior, writes, steps>>
    /\ UNCHANGED <<vvars, pvars>>

\* Line 733.
LinkStep ==
    /\ ipc = "link"
    /\ LET r == LinkDynamicVars(scr, tree[scr], store, heap)
       IN  /\ tree' = [tree EXCEPT ![scr] = r.tree]
           /\ store' = r.store
           /\ heap' = r.heap
    /\ ipc' = "create"
    /\ last' = [op |-> "link", s |-> scr, again |-> FALSE]
    /\ UNCHANGED <<scr, sources, hostStore, ui, made, seen, prior, writes, steps>>
    /\ UNCHANGED <<vvars, pvars>>

\* Line 736.
CreateStep ==
    /\ ipc = "create"
    /\ LET r == CreateUIObjs([trees |-> tree, store |-> store], tree[scr], heap)
       IN  /\ heap' = r.h
           /\ ui' = [ui EXCEPT ![scr] = IF r.ok THEN "shared" ELSE "empty"]
           /\ made' = [made EXCEPT ![scr] = r.made]
    /\ seen' = [s \in 1..(scr - 1) |-> View(ui[s], heap)]
    /\ ipc' = "update"
    /\ last' = [op |-> "create", s |-> scr, again |-> FALSE]
    /\ UNCHANGED <<scr, sources, store, hostStore, tree, prior, writes, steps>>
    /\ UNCHANGED <<vvars, pvars>>

\* Lines 737-738, and the loop of line 727.
UpdateStep ==
    /\ ipc = "update"
    /\ LET u == UpdateVars(ui[scr], [h |-> heap, store |-> store, trees |-> tree,
                                     writes |-> {}])
       IN  /\ heap' = u.h
           /\ store' = u.store
           /\ tree' = u.trees
           /\ writes' = u.writes
    /\ prior' = Targets(heap, store)
    /\ last' = [op |-> "update", s |-> scr, again |-> FALSE]
    /\ IF scr < Len(sources)
       THEN scr' = scr + 1 /\ ipc' = "parse"
       ELSE scr' = scr /\ ipc' = "host"
    /\ UNCHANGED <<sources, hostStore, ui, made, seen, steps>>
    /\ UNCHANGED <<vvars, pvars>>

\* The host assigns a store variable.
HostSetVar ==
    /\ ipc = "host"
    /\ steps < MaxHostSteps
    /\ \E j \in 1..Len(store), value \in HostValues :
          /\ store[j].v # value
          /\ store' = [store EXCEPT ![j].v = value]
          /\ hostStore' = [hostStore EXCEPT ![j].v = value]
    /\ steps' = steps + 1
    /\ last' = [op |-> "set", s |-> 0, again |-> FALSE]
    /\ UNCHANGED <<ipc, scr, sources, tree, heap, ui, made, seen, prior, writes>>
    /\ UNCHANGED <<vvars, pvars>>

\* The host calls UpdateVars on the result of screen s.  again: the call
\* before was UpdateVars on the same result, with no store change in between.
HostUpdateVars ==
    /\ ipc = "host"
    /\ steps < MaxHostSteps
    /\ \E s \in 1..Len(sources) :
          /\ LET u == UpdateVars(ui[s], [h |-> heap, store |-> store, trees |-> tree,
                                         writes |-> {}])
             IN  /\ heap' = u.h
                 /\ store' = u.store
                 /\ tree' = u.trees
                 /\ writes' = u.writes
          /\ last' = [op |-> "update", s |-> s, again |-> last.op = "update" /\ last.s = s]
    /\ prior' = Targets(heap, store)
    /\ steps' = steps + 1
    /\ UNCHANGED <<ipc, scr, sources, hostStore, ui, made, seen>>
    /\ UNCHANGED <<vvars, pvars>>

(***************************************************************************)
(* The specifications.                                                     *)
(***************************************************************************)
InitValidate == ValidateInputs /\ ParseIdle /\ PipelineIdle

NextValidate == Validate \/ DeleteBracket

SpecValidate == InitValidate /\ [][NextValidate]_vars

InitParse == ValidateIdle /\ ParseInputs /\ PipelineIdle

NextParse == Parse \/ DropCloser

SpecParse == InitParse /\ [][NextParse]_vars

Init == ValidateIdle /\ ParseIdle /\ PipelineInputs

Next == ParseStep \/ LinkStep \/ CreateStep \/ UpdateStep \/ HostSetVar \/ HostUpdateVars

Spec == Init /\ [][Next]_vars

(***************************************************************************)
(* ValidateDSLFiles: the property of the structural validator.             *)
(***************************************************************************)
\* C6 (as stated): the validator reports success for every well-bracketed text,
\* and for a well-bracketed text with one bracket deleted it reports a failure
\* whose position is at or before the index of the deleted bracket.
C6_PositionAtOrBeforeDeletion ==
    vpc = "validated" =>
        /\ (~vDel.is /\ WellBracketed(vText)) => vOut.ok
        /\ (vDel.is /\ vDel.balanced) => (~vOut.ok /\ vOut.pos <= vDel.at)

\* C6 (amended): success for every well-bracketed text; a failure for every such
\* text with one bracket deleted.  The reported position is at or before the
\* deletion index when a closing bracket was deleted and whenever the report is
\* a mismatch; after deleting an opening bracket the failure is raised at a
\* closing bracket at or after the deletion index, and an "Unmatched" report
\* names that later position.
C6_DeletionIsReported ==
    vpc = "validated" =>
        /\ (~vDel.is /\ WellBracketed(vText)) => vOut.ok
        /\ (vDel.is /\ vDel.balanced) =>
              /\ ~vOut.ok
              /\ vDel.ch \in Closing => (vOut.kind \in {"Unclosed", "Mismatched"}
                                           /\ vOut.pos <= vDel.at)
              /\ vDel.ch \in Opening => (vOut.kind \in {"Unmatched", "Mismatched"}
                                           /\ vOut.at >= vDel.at)
              /\ vOut.kind = "Mismatched" => vOut.pos <= vDel.at
              /\ vOut.kind = "Unmatched" => vOut.pos >= vDel.at

\* A well-bracketed text lost a closing bracket and the validator reported it.
C6_Witness ==
    /\ vpc = "validated"
    /\ vDel.is /\ vDel.balanced
    /\ vDel.ch \in Closing
    /\ ~vOut.ok /\ vOut.pos <= vDel.at

(***************************************************************************)
(* ParseRaw: the properties.                                               *)
(***************************************************************************)
Parsed == ppc = "parsed"

OnlyElementBlocks == \A i \in 1..Len(pBlocks) : ~IsStyleBlock(pBlocks[i])

\* What each block of the source parses to when it is the whole source.
BlockNodes == [i \in 1..Len(pBlocks) |-> parse_block(pBlocks[i], <<>>, <<>>).node]

\* C4: a source of n >= 2 top-level element blocks parses to a node of type
\* "container" whose children are the n parsed blocks, in source order.
C4_BlocksWrappedInContainer ==
    (Parsed /\ ~pDrop.is /\ OnlyElementBlocks /\ Len(pBlocks) >= 2) =>
        /\ ~pOut.err
        /\ pOut.tree.type = <<"container">>
        /\ pOut.tree.children = BlockNodes

\* The table entry an element's style_name refers to, and whether it has one.
StyleRef(e) == Get(e.direct, <<"style_name">>)

RefersToDefinedStyle(e) ==
    /\ HasKey(e.direct, <<"style_name">>)
    /\ HasKey(e.styles, StyleRef(e))

\* The element keeps every value it sets itself and takes from the style
\* every key it does not set.
StyleMerged(e) ==
    /\ \A i \in 1..Len(e.direct) :
          e.direct[i].k # <<"style_name">> =>
              /\ HasKey(e.props, e.direct[i].k)
              /\ Get(e.props, e.direct[i].k) = e.direct[i].v
    /\ \A j \in 1..Len(Get(e.styles, StyleRef(e))) :
          LET sk == Get(e.styles, StyleRef(e))[j].k IN
          ~HasKey(e.direct, sk) =>
              /\ HasKey(e.props, sk)
              /\ Get(e.props, sk) = Get(e.styles, StyleRef(e))[j].v

\* C5 as stated: for every element with style_name = s where s is defined in
\* the style table, the resulting property map has the element's own value
\* for each key the element sets, and the style's value for each key that
\* only the style sets.
C5_DirectThenStyle ==
    (Parsed /\ ~pOut.err) =>
        \A n \in 1..Len(pOut.log) :
            RefersToDefinedStyle(pOut.log[n]) => StyleMerged(pOut.log[n])

\* The same, restricted to a style name s that Python holds true (not 0, not
\* the empty string, not false, not null): line 291 tests "style_ref and ...".
DirectThenTruthyStyle ==
    (Parsed /\ ~pOut.err) =>
        \A n \in 1..Len(pOut.log) :
            (RefersToDefinedStyle(pOut.log[n]) /\ Truthy(StyleRef(pOut.log[n])))
                => StyleMerged(pOut.log[n])

\* An element referring to a defined, truthy style name, where the style and
\* the element disagree on one key and the style alone sets another.
StyledElementParsed ==
    /\ Parsed /\ ~pOut.err
    /\ \E n \in 1..Len(pOut.log) :
          LET e == pOut.log[n] IN
          /\ RefersToDefinedStyle(e) /\ Truthy(StyleRef(e))
          /\ \E j \in 1..Len(Get(e.styles, StyleRef(e))) :
                LET se == Get(e.styles, StyleRef(e))[j] IN
                HasKey(e.direct, se.k) /\ Get(e.direct, se.k) # se.v
          /\ \E j \in 1..Len(Get(e.styles, StyleRef(e))) :
                ~HasKey(e.direct, Get(e.styles, StyleRef(e))[j].k)

\* More "(" than ")" or more "{" than "}" in the text: some opened span is
\* never closed.
Count(s, ch) == Cardinality({i \in 1..Len(s) : s[i] = ch})

LeftOpen(s) == Count(s, "(") > Count(s, ")") \/ Count(s, "{") > Count(s, "}")

\* C10: when a "(" or "{" of a top-level block or of a child block is never
\* closed, ParseRaw yields the error result, never a tree.
C10_UnclosedYieldsError ==
    (Parsed /\ pDrop.is /\ LeftOpen(pCode)) => pOut.err

(***************************************************************************)
(* The linker, the builder and the update engine: the properties.          *)
(***************************************************************************)
\* The tree of screen s as ParseRaw returned it, its placeholders in place.
Orig(s) == ParsedTree(ParseRaw(sources[s]))

Reserved == {<<"name">>, <<"tags">>}

StoreKeys == {store[j].k : j \in 1..Len(store)}

\* The (key, variable) pairs for which props holds, under the key, exactly
\* the placeholder of a store variable.
Placeholders(props) ==
    {[k |-> props[j].k, v |-> v] : j \in 1..Len(props), v \in StoreKeys}
        \cap {pv \in [k : {props[j].k : j \in 1..Len(props)}, v : StoreKeys] :
                 IsPlaceholderOf(Get(props, pv.k), pv.v)}

\* The element nodes of screen s for which an object was built.
BuiltElements(s) ==
    {i \in 1..Len(Orig(s).nodes) :
        Orig(s).nodes[i].type \in ElementKinds /\ made[s][i].obj # 0}

ObjOf(s, i) == heap.objs[made[s][i].obj]

RecOf(s, i) == heap.recs[made[s][i].rec]

Updated(s) == last.op = "update" /\ last.s = s /\ ui[s] = "shared"

\* C1: for an element node with a non-reserved key k whose value is the
\* placeholder of store variable v, LinkDynamicVars records exactly one
\* binding for (node, k, v), and after CreateUIObjs and any UpdateVars call --
\* the first one, or one after the host changed the store -- the object's
\* attribute k equals store[v].
C1_PlaceholderFollowsStore ==
    \A s \in 1..Len(sources) :
        /\ (last.op = "link" /\ last.s = s /\ tree[s].kind = "tree") =>
              \A i \in 1..Len(Orig(s).nodes) :
                  Orig(s).nodes[i].type \in ElementKinds =>
                      \A pv \in Placeholders(Orig(s).nodes[i].props) :
                          pv.k \notin Reserved =>
                              Cardinality({j \in 1..Len(heap.lists[tree[s].dynamic_refs]) :
                                  heap.lists[tree[s].dynamic_refs][j]
                                      = Ref(PropsTarget(s, i), pv.k, pv.v)}) = 1
        /\ Updated(s) =>
              \A i \in BuiltElements(s) :
                  \A pv \in Placeholders(Orig(s).nodes[i].props) :
                      pv.k \notin Reserved =>
                          /\ HasKey(ObjOf(s, i), pv.k)
                          /\ Get(ObjOf(s, i), pv.k) = Get(store, pv.v)

\* A root group whose children are all element nodes without children.
GroupOfElements(s) ==
    /\ Orig(s).kind = "tree"
    /\ Orig(s).nodes[1].type = <<"group">>
    /\ \A i \in 2..Len(Orig(s).nodes) :
          Orig(s).nodes[i].parent = 1 /\ Orig(s).nodes[i].type \in ElementKinds

\* C2: under a root group whose property k is bound to v, after
\* LinkDynamicVars, CreateUIObjs and UpdateVars every child that does not
\* define k has store[v] at k on its object (name, tags: in its record), and
\* what a child binds on its own property is written to no sibling's object.
C2_GroupPropagation ==
    \A s \in 1..Len(sources) :
        (Updated(s) /\ GroupOfElements(s)) =>
            /\ \A pv \in Placeholders(Orig(s).nodes[1].props) :
                  \A i \in BuiltElements(s) :
                      ~HasKey(Orig(s).nodes[i].props, pv.k) =>
                          CASE pv.k = <<"name">> -> RecOf(s, i).name = Get(store, pv.v)
                            [] pv.k = <<"tags">> -> RecOf(s, i).tags = Get(store, pv.v)
                            [] OTHER -> /\ HasKey(ObjOf(s, i), pv.k)
                                        /\ Get(ObjOf(s, i), pv.k) = Get(store, pv.v)
            /\ \A i \in BuiltElements(s) :
                  \A pv \in Placeholders(Orig(s).nodes[i].props) :
                      \A j \in BuiltElements(s) \ {i} :
                          [target |-> ObjTarget(made[s][j].obj), key |-> pv.k, var |-> pv.v]
                                  \in writes
                              => \/ pv \in Placeholders(Orig(s).nodes[j].props)
                                 \/ /\ pv \in Placeholders(Orig(s).nodes[1].props)
                                    /\ ~HasKey(Orig(s).nodes[j].props, pv.k)

\* C3: a second UpdateVars call right after a first, with no store change by
\* the host in between, leaves the objects, the records and the store as the
\* first call left them.
C3_UpdateVarsIdempotent ==
    (last.op = "update" /\ last.again) => Targets(heap, store) = prior

\* C7: building a second screen leaves the earlier screens' results (records,
\* binding list, store slot) as they were, and its own result holds no record
\* and no binding of theirs.
C7_ScreensShareNothing ==
    (last.op = "create" /\ last.s > 1) =>
        \A s \in 1..(last.s - 1) :
            /\ View(ui[s], heap) = seen[s]
            /\ \A j \in 1..Len(View(ui[last.s], heap).recs) :
                  \A i \in 1..Len(made[s]) :
                      View(ui[last.s], heap).recs[j].id # made[s][i].rec
            /\ \A j \in 1..Len(View(ui[last.s], heap).refs) :
                  \A n \in 1..Len(seen[s].refs) :
                      View(ui[last.s], heap).refs[j] # seen[s].refs[n]

\* C8: when some node of the tree, the root or a descendant, is of a kind that
\* is neither an element kind nor a transparent kind, the top-level
\* CreateUIObjs call returns the error result.
C8_UnknownKindFailsWholeTree ==
    \A s \in 1..Len(sources) :
        (/\ last.op = "create" /\ last.s = s /\ tree[s].kind = "tree"
         /\ \E i \in 1..Len(tree[s].nodes) :
               tree[s].nodes[i].type \notin ElementKinds \cup TransparentKinds)
            => ui[s] = "empty"

\* C9: LinkDynamicVars and UpdateVars leave the store as the host supplied it.
C9_StoreOnlyRead == store = hostStore

\* value is a string with the markers that names no variable of the store.
IsUnknownPlaceholder(value) ==
    /\ value.t = "str"
    /\ \E i \in 1..Len(value.v) : value.v[i] \in Markers
    /\ [i \in 1..Len(value.v) |-> Unmarked(value.v[i])] \notin StoreKeys

\* The nodes of screen s that still hold such a string in their props.
UnknownLeft(s) ==
    {i \in 1..Len(tree[s].nodes) :
        \E j \in 1..Len(tree[s].nodes[i].props) :
            IsUnknownPlaceholder(tree[s].nodes[i].props[j].v)}

\* C11: LinkDynamicVars does not complete normally, with a binding list
\* stored in the tree, while a placeholder that names no store variable is
\* left unbound in the tree.
C11_UnknownVariableFails ==
    \A s \in 1..Len(sources) :
        (last.op = "link" /\ last.s = s /\ tree[s].kind = "tree")
            => ~(tree[s].dynamic_refs # 0 /\ UnknownLeft(s) # {})

\* Screen s was just built and CreateUIObjs returned OBJ_LIST.
Created(s) == last.op = "create" /\ last.s = s /\ ui[s] = "shared"

\* The binding list of the result, OBJ_LIST[-1].
Resolved == heap.lists[heap.OBJ_LIST.refs]

\* How many bindings of the resolved list are equal to r.
Bindings(r) == Cardinality({j \in 1..Len(Resolved) : Resolved[j] = r})

NoGroups(s) ==
    \A i \in 1..Len(Orig(s).nodes) : Orig(s).nodes[i].type # <<"group">>

\* C12: after CreateUIObjs, each binding the linker recorded on an element
\* node (key k, variable v, k not reserved) sits on the object built from that
\* very node, also when another node's props have equal contents; where no
\* group carries bindings down, it is there exactly once.
C12_RetargetedOntoOwnObject ==
    \A s \in 1..Len(sources) :
        Created(s) =>
            \A i \in BuiltElements(s) :
                \A pv \in Placeholders(Orig(s).nodes[i].props) :
                    pv.k \notin Reserved =>
                        /\ Bindings(Ref(ObjTarget(made[s][i].obj), pv.k, pv.v)) >= 1
                        /\ NoGroups(s) =>
                              Bindings(Ref(ObjTarget(made[s][i].obj), pv.k, pv.v)) = 1

\* The slot of a record that a reserved key names.
SlotKey(k) == IntKey(IF k = <<"name">> THEN 1 ELSE 2)

SlotOf(rec, k) == IF k = <<"name">> THEN rec.name ELSE rec.tags

\* C13: a binding on name or tags declared on an element node is retargeted by
\* CreateUIObjs onto that node's own record, its key being the slot of the
\* record, and the next UpdateVars writes store[variable] into that slot.
C13_ReservedKeyOntoOwnRecord ==
    \A s \in 1..Len(sources) :
        \A i \in 1..Len(made[s]) :
            made[s][i].rec # 0 =>
                \A pv \in Placeholders(Orig(s).nodes[i].props) :
                    pv.k \in Reserved =>
                        /\ Created(s) =>
                              Bindings(Ref(RecTarget(made[s][i].rec), SlotKey(pv.k), pv.v)) >= 1
                        /\ (Updated(s) /\ ipc # "host") =>
                              SlotOf(RecOf(s, i), pv.k) = Get(store, pv.v)

\* target[key] holds value.
Holds(t, key, value) ==
    CASE t.kind = "props" ->
             /\ HasKey(tree[t.at[1]].nodes[t.at[2]].props, key)
             /\ Get(tree[t.at[1]].nodes[t.at[2]].props, key) = value
      [] t.kind = "store" -> HasKey(store, key) /\ Get(store, key) = value
      [] t.kind = "obj" -> HasKey(heap.objs[t.at[1]], key) /\ Get(heap.objs[t.at[1]], key) = value
      [] t.kind = "rec" ->
             /\ IsIntKey(key)
             /\ value = IF key = IntKey(1) THEN heap.recs[t.at[1]].name
                        ELSE heap.recs[t.at[1]].tags
      [] t.kind = "list" ->
             /\ IsIntKey(key)
             /\ Len(heap.lists[t.at[1]]) > (IF key = IntKey(1) THEN 1 ELSE 2)
             /\ heap.lists[t.at[1]][IF key = IntKey(1) THEN 2 ELSE 3] = Written(value)
      [] OTHER -> FALSE

\* The bindings of the resolved list.
ResolvedRefs == {j \in 1..Len(Resolved) : Resolved[j].kind = "ref"}

\* C14: when UpdateVars returns, for every binding of the resolved list,
\* wherever in the list, target[key] holds store[variable], the variable
\* being that of one of the bindings on this target and key.
C14_AllBindingsApplied ==
    \A s \in 1..Len(sources) :
        Updated(s) =>
            \A j \in ResolvedRefs :
                \E n \in ResolvedRefs :
                    /\ Resolved[n].target = Resolved[j].target
                    /\ Resolved[n].key = Resolved[j].key
                    /\ HasKey(store, Resolved[n].var)
                    /\ Holds(Resolved[j].target, Resolved[j].key,
                             Get(store, Resolved[n].var))

\* The variable the nearest group among node p and its ancestors binds key k
\* to: a set of one variable, or the empty set.
RECURSIVE CarriedVar(_, _, _)
CarriedVar(nodes, p, k) ==
    IF p = 0 THEN {}
    ELSE IF /\ nodes[p].type = <<"group">>
            /\ \E pv \in Placeholders(nodes[p].props) : pv.k = k
    THEN {pv.v : pv \in {q \in Placeholders(nodes[p].props) : q.k = k}}
    ELSE CarriedVar(nodes, nodes[p].parent, k)

\* Node p or an ancestor of it that is no group defines key k.
RECURSIVE PathDefines(_, _, _)
PathDefines(nodes, p, k) ==
    /\ p # 0
    /\ \/ nodes[p].type # <<"group">> /\ HasKey(nodes[p].props, k)
       \/ PathDefines(nodes, nodes[p].parent, k)

\* The keys some group of screen s binds.
GroupKeys(s) ==
    {pv.k : pv \in UNION {Placeholders(Orig(s).nodes[p].props) :
                             p \in {q \in 1..Len(Orig(s).nodes) :
                                       Orig(s).nodes[q].type = <<"group">>}}}

\* The variables of the bindings of the resolved list on key k of the object
\* of node i of screen s (for name, tags: on that slot of its record).
BoundVars(s, i, k) ==
    IF k \in Reserved
    THEN {Resolved[j].var : j \in {n \in ResolvedRefs :
             /\ Resolved[n].target = RecTarget(made[s][i].rec)
             /\ Resolved[n].key = SlotKey(k)}}
    ELSE {Resolved[j].var : j \in {n \in ResolvedRefs :
             /\ Resolved[n].target = ObjTarget(made[s][i].obj)
             /\ Resolved[n].key = k}}

\* C15: after CreateUIObjs, an element node that defines key k neither itself
\* nor through an ancestor that is no group carries for k exactly the binding
\* of its nearest ancestor group that binds k: none when no ancestor group
\* binds k (a later sibling of the group), and the outer group's variable
\* after an inner group's subtree is finished.
C15_CarriedFromAncestorGroups ==
    \A s \in 1..Len(sources) :
        Created(s) =>
            \A i \in BuiltElements(s) :
                \A k \in GroupKeys(s) :
                    ~PathDefines(Orig(s).nodes, i, k) =>
                        BoundVars(s, i, k) = CarriedVar(Orig(s).nodes, i, k)

\* The variables node i of screen s binds key k to in its own props.
OwnVars(s, i, k) ==
    {pv.v : pv \in {q \in Placeholders(Orig(s).nodes[i].props) : q.k = k}}

\* C16: after CreateUIObjs, for an element node under a group that binds key
\* k: when the node's own props define k, with whatever value, no binding was
\* synthesized for k on it (the bindings on k are those of its own
\* placeholder); when they do not, one was, also when an ancestor that is no
\* group defines k.
C16_CarriedIffNotDefined ==
    \A s \in 1..Len(sources) :
        Created(s) =>
            \A i \in BuiltElements(s) :
                \A k \in GroupKeys(s) :
                    CarriedVar(Orig(s).nodes, i, k) # {} =>
                        IF HasKey(Orig(s).nodes[i].props, k)
                        THEN BoundVars(s, i, k) \subseteq
                                 (IF k \in Reserved THEN {} ELSE OwnVars(s, i, k))
                        ELSE BoundVars(s, i, k) # {}

\* C17: after CreateUIObjs, every binding of the resolved list targets a
\* created object or the record of one; none targets the object that a
\* group, container, box_layout or anchor_layout node does not have.
C17_BindingsTargetObjects ==
    \A s \in 1..Len(sources) :
        Created(s) =>
            \A j \in ResolvedRefs :
                /\ Resolved[j].target # NoTarget
                /\ Resolved[j].target.kind \in {"obj", "rec"}

====
